---- MODULE Spec2Model ----
(***************************************************************************)
(* A model of the loggy logger (src/src/lib.rs): the thread-local named    *)
(* scope with its error tally, the force-panic flag, the routing of a      *)
(* record by emit_message between the capture buffer, the real error       *)
(* stream and a panic, and the capture sessions of assert_logs,            *)
(* assert_panics and assert_logs_panics.                                   *)
(*                                                                         *)
(* Text is modelled structurally.  A rendered message is a sequence of     *)
(* physical lines, each line a record of the segments append_prefix and    *)
(* format_message write; concatenating strings is concatenating sequences. *)
(* An Option is a sequence of length 0 (None) or 1 (Some).                 *)
(*                                                                         *)
(* count_errors, errors(), before_test and after_test are called by the    *)
(* tests and by the macro crate but are not defined in src/src/lib.rs;     *)
(* the definitions that model them follow spec.md and are marked so.       *)
(***************************************************************************)
EXTENDS Integers, Sequences, FiniteSets, TLC

\* ------------------------------------------------------------------ bounds
\* Records handed to Loggy::log over the life of the process.
MaxRecords == 2
\* Frames (scope guards, counting regions, harness calls) open on one thread.
MaxDepth == 3

\* ------------------------------------------------------------------ inputs
Threads == {"main", "worker"}
ScopeNames == {"scope", ""}
Labels == {"foo"}
Levels == {"Error", "Warn", "Info", "Debug", "Trace"}
\* A record's args, as the logical lines of the text they format to.
Messages == {<<"m">>}
\* The args a spawned thread logs.
ChildMessages == {<<"child">>}
\* Args of one and of two logical lines.
MultiLine == {<<"m">>, <<"m", "n">>}
\* Args of two logical lines that a spawned thread logs.
ChildLines == {<<"child", "more">>}
\* log::LevelFilter
LevelFilters == {"Off"} \cup Levels
ModulePath == "test_log"
SourceFile == "tests/test_log.rs"
SourceLine == 1

None == <<>>
Some(v) == <<v>>
IsSome(o) == Len(o) = 1
Unwrap(o) == o[1]

VARIABLES
    NAMED_SCOPE,      \* thread -> Option<NamedScope>
    FORCE_PANIC,      \* thread -> bool
    THREAD_ID,        \* thread -> Option<usize>
    TOTAL_THREADS,    \* usize
    LOG_BUFFER,       \* Option<String>
    DID_SET_LOGGER,   \* bool
    SINGLE_TEST,      \* Option<thread>: the holder of the harness lock
    loggy,            \* Option<Loggy>: the registered logger
    max_level,        \* log::max_level()
    MIRROR_TO_STDERR, \* bool, read once from the environment
    stderr,           \* what eprint! has written
    stack,            \* thread -> the frames open on the thread, innermost last
    panicking,        \* thread -> Option<payload>: the panic being unwound
    status,           \* thread -> "unborn" | "running" | "locking" | "emitting" |
                      \*           "dropping" | "finished" | "joined"
    IS_COUNTING,      \* thread -> bool                          (spec.md 4.4)
    THREAD_ERRORS,    \* thread -> running error tally           (spec.md 4.1)
    TOTAL_ERRORS,     \* process-wide error total                (spec.md 3)
    count_result,     \* thread -> Option<usize>: what count last returned
    records,          \* records handed to Loggy::log so far
    error_records     \* Error records among them since before_test last ran

vars == <<NAMED_SCOPE, FORCE_PANIC, THREAD_ID, TOTAL_THREADS, LOG_BUFFER,
          DID_SET_LOGGER, SINGLE_TEST, loggy, max_level, MIRROR_TO_STDERR,
          stderr, stack, panicking, status, IS_COUNTING, THREAD_ERRORS,
          TOTAL_ERRORS, count_result, records, error_records>>

localVars == <<NAMED_SCOPE, FORCE_PANIC, THREAD_ID>>
configVars == <<DID_SET_LOGGER, loggy, max_level, MIRROR_TO_STDERR>>
countVars == <<IS_COUNTING, THREAD_ERRORS, TOTAL_ERRORS, count_result, error_records>>

\* ------------------------------------------------------------------ text
\* The order of log::Level and log::LevelFilter:
\* Off < Error < Warn < Info < Debug < Trace.
LevelRank(level) ==
    CASE level = "Off"   -> 0
      [] level = "Error" -> 1
      [] level = "Warn"  -> 2
      [] level = "Info"  -> 3
      [] level = "Debug" -> 4
      [] level = "Trace" -> 5

\* Level::to_string(): the upper-case spelling.
LevelString(level) ==
    CASE level = "Error" -> "ERROR"
      [] level = "Warn"  -> "WARN"
      [] level = "Info"  -> "INFO"
      [] level = "Debug" -> "DEBUG"
      [] level = "Trace" -> "TRACE"

\* str::to_lowercase() on the spellings that occur.
ToLowercase(s) ==
    CASE s = "ERROR" -> "error"
      [] s = "WARN"  -> "warn"
      [] s = "INFO"  -> "info"
      [] s = "DEBUG" -> "debug"
      [] s = "TRACE" -> "trace"
      [] OTHER -> s

Record(level, args) ==
    [level |-> level, args |-> args, module_path |-> ModulePath,
     file |-> SourceFile, line |-> SourceLine]

\* enabled without its first two clauses: the threshold alone decides.
EnabledByThreshold(level, max) == LevelRank(level) <= LevelRank(max)

\* impl Log for Loggy: enabled.
Enabled(level, max) ==
    \/ level = "Error"
    \/ level = "Debug"
    \/ LevelRank(level) <= LevelRank(max)

\* The thread ordinal append_prefix shows: the cached one, else the next.
ThreadOrdinal(thread_id, total_threads) ==
    IF IsSome(thread_id) THEN Unwrap(thread_id) ELSE total_threads

\* The module path written whatever scope is active.
ResolveScopeModule(named_scope, record) == record.module_path

\* The name append_prefix resolves: the active scope's, else the module path.
ResolveScope(named_scope, record) ==
    IF IsSome(named_scope) THEN Unwrap(named_scope).name ELSE record.module_path

\* Loggy::append_prefix: the segments written before the line's text.
AppendPrefix(self, thread_id, total_threads, named_scope, level, record) ==
    [prefix   |-> self.prefix,
     thread   |-> IF self.show_thread
                  THEN Some(ThreadOrdinal(thread_id, total_threads))
                  ELSE None,
     time     |-> self.show_time,
     level    |-> level,
     location |-> IF record.level = "Debug"
                  THEN Some(<<record.file, record.line>>)
                  ELSE None,
     scope    |-> LET scope == ResolveScope(named_scope, record)
                  IN  IF scope # "" THEN Some(scope) ELSE None]

\* The level never lowered: every line shows it in upper case.
LineLevelUpper(record, index) == LevelString(record.level)

\* The level spelling of physical line index (0-based): lower case after
\* the first.
LineLevel(record, index) ==
    IF index > 0 THEN ToLowercase(LevelString(record.level))
    ELSE LevelString(record.level)

\* Loggy::format_message: one physical line per logical line.
FormatMessage(self, thread_id, total_threads, named_scope, record) ==
    [i \in 1..Len(record.args) |->
        [head |-> AppendPrefix(self, thread_id, total_threads, named_scope,
                               LineLevel(record, i - 1), record),
         text |-> record.args[i]]]

\* The panic payloads.
TextPayload(message) == [kind |-> "text", text |-> message]
OutsidePayload(prefix) == [kind |-> "outside", prefix |-> prefix]
FailedPayload(prefix, name, errors) ==
    [kind |-> "failed", prefix |-> prefix, name |-> name, errors |-> errors]


AssertEqPayload(what) == [kind |-> "assert_eq", what |-> what]
DidNotPanicPayload == [kind |-> "did_not_panic"]
UnwrapNonePayload == [kind |-> "unwrap_none"]
LeftoverPayload == [kind |-> "log_not_empty"]
NoErrorsPayload(prefix, errors, label) ==
    [kind |-> "no_errors", prefix |-> prefix, errors |-> errors, label |-> label]

\* ---------------------------------------------------------------- frames
\* What a thread has open, innermost last: Scope guards, counting regions,
\* harness calls (assert_logs and friends) and a #[loggy] test body.

\* A guard that forgets the scope it replaced.
ScopeGuardForgetful(previous, name) ==
    [kind |-> "scope", previous |-> None, entered |-> name, seen |-> 0]

\* A Scope guard keeps previous.  entered and seen only observe it: the name
\* it was created with, and the Error records the thread logged, without
\* panicking in the call, while its scope was the innermost one.
ScopeGuard(previous, name) ==
    [kind |-> "scope", previous |-> previous, entered |-> name, seen |-> 0]

\* A counting region keeps was_counting and before (spec.md 4.4).  logged,
\* direct, inner and nested only observe it: the Error records the thread
\* logged since it began, those logged while it was the innermost region,
\* the sum of the values the regions nested directly in it returned, and
\* whether such a region has returned.
CountRegion(was_counting, before, total) ==
    [kind |-> "count", was_counting |-> was_counting, before |-> before,
     total |-> total, logged |-> 0, direct |-> 0, inner |-> 0, nested |-> FALSE]

\* assert_no_errors keeps the same and its label (spec.md 4.6); logged
\* observes the Error records the thread logged since it began.
NoErrorsRegion(label, was_counting, before) ==
    [kind |-> "no_errors", label |-> label, was_counting |-> was_counting,
     before |-> before, logged |-> 0]

HarnessCall(expected_log, expected_panic) ==
    [kind |-> "assert", expected_log |-> expected_log,
     expected_panic |-> expected_panic]

TestBody == [kind |-> "test"]

Top(frames) == frames[Len(frames)]
Pop(frames) == SubSeq(frames, 1, Len(frames) - 1)
HasTop(t, kind) == Len(stack[t]) > 0 /\ Top(stack[t]).kind = kind
InFrame(t, kind) == \E i \in 1..Len(stack[t]) : stack[t][i].kind = kind

\* The index of the innermost frame of a kind among frames, 0 when none.
Innermost(frames, kind) ==
    LET S == {i \in 1..Len(frames) : frames[i].kind = kind}
    IN  IF S = {} THEN 0 ELSE CHOOSE i \in S : \A j \in S : j <= i

\* The observers after one more Error record, which panicked or did not.
ObserveError(frames, panicked) ==
    [i \in 1..Len(frames) |->
        IF frames[i].kind = "count"
        THEN [frames[i] EXCEPT
                !.logged = @ + 1,
                !.direct = IF i = Innermost(frames, "count") THEN @ + 1 ELSE @]
        ELSE IF frames[i].kind = "no_errors"
        THEN [frames[i] EXCEPT !.logged = @ + 1]
        ELSE IF frames[i].kind = "scope" /\ i = Innermost(frames, "scope")
                /\ ~panicked
        THEN [frames[i] EXCEPT !.seen = @ + 1]
        ELSE frames[i]]

\* The observers, after a region nested in the innermost one returned value.
ObserveReturn(frames, value) ==
    [i \in 1..Len(frames) |->
        IF i = Innermost(frames, "count")
        THEN [frames[i] EXCEPT !.inner = @ + value, !.nested = TRUE]
        ELSE frames[i]]

\* Loggy::global(): the registered logger.
Global == Unwrap(loggy)

Running(t) == status[t] = "running" /\ panicking[t] = None
Unwinding(t) == status[t] = "running" /\ panicking[t] # None

\* ---------------------------------------------------------------- scopes
\* Scope::new: the scope that becomes active.
NewScope(name) == [name |-> name, errors |-> 0]

\* Scope::new
EnterScope(t, name) ==
    /\ Running(t)
    /\ Len(stack[t]) < MaxDepth
    /\ NAMED_SCOPE' = [NAMED_SCOPE EXCEPT ![t] = Some(NewScope(name))]
    /\ stack' = [stack EXCEPT ![t] = Append(@, ScopeGuard(NAMED_SCOPE[t], name))]
    /\ UNCHANGED <<FORCE_PANIC, THREAD_ID, TOTAL_THREADS, LOG_BUFFER,
                   SINGLE_TEST, stderr, panicking, status, records>>
    /\ UNCHANGED configVars
    /\ UNCHANGED countVars

\* The drop with the test on the tally off by one.
ScopeDropPanicAboveOne(current, is_panicking, prefix) ==
    IF ~IsSome(current) THEN Some(UnwrapNonePayload)
    ELSE IF Unwrap(current).errors > 1 /\ ~is_panicking
    THEN Some(FailedPayload(prefix, Unwrap(current).name, Unwrap(current).errors))
    ELSE None

\* The drop without its test of panicking().
ScopeDropPanicAgain(current, is_panicking, prefix) ==
    IF ~IsSome(current) THEN Some(UnwrapNonePayload)
    ELSE IF Unwrap(current).errors > 0
    THEN Some(FailedPayload(prefix, Unwrap(current).name, Unwrap(current).errors))
    ELSE None

\* impl Drop for Scope: the panic the drop raises, if any.  current is what
\* NAMED_SCOPE held; unwrap() panics when it held nothing.
ScopeDropPanic(current, is_panicking, prefix) ==
    IF ~IsSome(current) THEN Some(UnwrapNonePayload)
    ELSE IF Unwrap(current).errors > 0 /\ ~is_panicking
    THEN Some(FailedPayload(prefix, Unwrap(current).name, Unwrap(current).errors))
    ELSE None

\* impl Drop for Scope: what becomes the active scope again.
ScopeDropRestore(guard) == guard.previous

\* impl Drop for Scope, the guard going out of scope normally.
ExitScope(t) ==
    /\ Running(t)
    /\ HasTop(t, "scope")
    /\ NAMED_SCOPE' = [NAMED_SCOPE EXCEPT ![t] = ScopeDropRestore(Top(stack[t]))]
    /\ panicking' = [panicking EXCEPT ![t] =
            ScopeDropPanic(NAMED_SCOPE[t], FALSE, Global.prefix)]
    /\ stack' = [stack EXCEPT ![t] = Pop(@)]
    /\ UNCHANGED <<FORCE_PANIC, THREAD_ID, TOTAL_THREADS, LOG_BUFFER,
                   SINGLE_TEST, stderr, status, records>>
    /\ UNCHANGED configVars
    /\ UNCHANGED countVars

\* impl Drop for Scope, the guard dropped by an unwinding panic.
UnwindScope(t) ==
    /\ Unwinding(t)
    /\ HasTop(t, "scope")
    /\ NAMED_SCOPE' = [NAMED_SCOPE EXCEPT ![t] = ScopeDropRestore(Top(stack[t]))]
    /\ panicking' = [panicking EXCEPT ![t] =
            LET again == ScopeDropPanic(NAMED_SCOPE[t], TRUE, Global.prefix)
            IN  IF IsSome(again) THEN again ELSE @]
    /\ stack' = [stack EXCEPT ![t] = Pop(@)]
    /\ UNCHANGED <<FORCE_PANIC, THREAD_ID, TOTAL_THREADS, LOG_BUFFER,
                   SINGLE_TEST, stderr, status, records>>
    /\ UNCHANGED configVars
    /\ UNCHANGED countVars

\* force_panic
ForcePanic(t) ==
    /\ Running(t)
    /\ FORCE_PANIC' = [FORCE_PANIC EXCEPT ![t] = TRUE]
    /\ UNCHANGED <<NAMED_SCOPE, THREAD_ID, TOTAL_THREADS, LOG_BUFFER,
                   SINGLE_TEST, stderr, stack, panicking, status, records>>
    /\ UNCHANGED configVars
    /\ UNCHANGED countVars

\* ------------------------------------------------------------------ log
\* emit_message, the Error branch with a scope active: the errors += 1.
TallyError(named_scope) == [named_scope EXCEPT !.errors = @ + 1]

\* The sink pushing the message in front of the buffer.
SinkBufferPrepended(log_buffer, message) ==
    IF IsSome(log_buffer) THEN Some(message \o Unwrap(log_buffer)) ELSE None

\* emit_message, lines 463-472: the buffer after the message reached the sink.
SinkBuffer(log_buffer, message) ==
    IF IsSome(log_buffer) THEN Some(Unwrap(log_buffer) \o message) ELSE None

\* emit_message, lines 463-472: what the sink writes to the real stream.
SinkEprint(log_buffer, mirror, message) ==
    IF IsSome(log_buffer) /\ ~mirror THEN <<>> ELSE message

\* What one call of emit_message does to the state it reads: the flag, the
\* thread's scope and the buffer after it, eprint the text it writes to the
\* real error stream, panic the payload it panics with.
Outcome(force_panic, named_scope, log_buffer, eprint, panic) ==
    [force_panic |-> force_panic, named_scope |-> named_scope,
     log_buffer |-> log_buffer, eprint |-> eprint, panic |-> panic]

\* The Debug branch without its return: the record goes on to the sink.
EmitDebugCaptured(message, force_panic, named_scope, log_buffer, mirror) ==
    Outcome(force_panic, named_scope, SinkBuffer(log_buffer, message),
            message \o SinkEprint(log_buffer, mirror, message), None)

\* emit_message, lines 440-443: a Debug record.
EmitDebug(message, force_panic, named_scope, log_buffer, mirror) ==
    Outcome(force_panic, named_scope, log_buffer, message, None)

\* The flag read with get() instead of replace(false): it stays set.
EmitForcedKeepsFlag(message, named_scope, log_buffer) ==
    Outcome(TRUE, named_scope, log_buffer, <<>>, Some(TextPayload(message)))

\* emit_message, lines 446-447: an Error record with the flag set.
EmitForced(message, named_scope, log_buffer) ==
    Outcome(FALSE, named_scope, log_buffer, <<>>, Some(TextPayload(message)))

\* The record sent to the sink before the panic.
EmitOutsideLogged(message, log_buffer, mirror, prefix) ==
    Outcome(FALSE, None, SinkBuffer(log_buffer, message),
            SinkEprint(log_buffer, mirror, message),
            Some(OutsidePayload(prefix)))

\* emit_message, lines 453-458: an Error record with no scope active.
EmitOutside(message, log_buffer, mirror, prefix) ==
    Outcome(FALSE, None, log_buffer, <<>>, Some(OutsidePayload(prefix)))

\* The tallied record turned into a panic carrying its text.
EmitTalliedPanics(message, named_scope, log_buffer, mirror) ==
    Outcome(FALSE, Some(TallyError(Unwrap(named_scope))), log_buffer, <<>>,
            Some(TextPayload(message)))

\* emit_message, lines 449-452 and 463-472: an Error record tallied in the
\* active scope and sent to the sink.
EmitTallied(message, named_scope, log_buffer, mirror) ==
    Outcome(FALSE, Some(TallyError(Unwrap(named_scope))),
            SinkBuffer(log_buffer, message),
            SinkEprint(log_buffer, mirror, message), None)

\* emit_message, lines 463-472: a record of another level sent to the sink.
EmitPlain(message, force_panic, named_scope, log_buffer, mirror) ==
    Outcome(force_panic, named_scope, SinkBuffer(log_buffer, message),
            SinkEprint(log_buffer, mirror, message), None)

\* emit_message
EmitMessage(level, message, force_panic, named_scope, log_buffer, mirror, prefix) ==
    IF level = "Debug"
    THEN EmitDebug(message, force_panic, named_scope, log_buffer, mirror)
    ELSE IF level = "Error"
    THEN (IF force_panic
          THEN EmitForced(message, named_scope, log_buffer)
          ELSE IF IsSome(named_scope)
          THEN EmitTallied(message, named_scope, log_buffer, mirror)
          ELSE EmitOutside(message, log_buffer, mirror, prefix))
    ELSE EmitPlain(message, force_panic, named_scope, log_buffer, mirror)

\* The total stored instead of added to.
CountedTotalStored(level, total) == IF level = "Error" THEN 1 ELSE total

\* spec.md 4.1 step 1: the counters after a record of this level.
CountedTotal(level, total) == IF level = "Error" THEN total + 1 ELSE total
CountedThread(level, tally) == IF level = "Error" THEN tally + 1 ELSE tally

\* NAMED_SCOPE handed down to a thread that has none of its own.
ThreadScopeInherited(t, scopes) ==
    IF IsSome(scopes[t]) THEN scopes[t] ELSE scopes["main"]

\* NAMED_SCOPE.with on thread t: the thread's own cell of the thread_local,
\* which starts as None on every thread (lines 229-231).
ThreadScope(t, scopes) == scopes[t]

\* The text Loggy::log renders for a record on thread t, in the current state.
Rendered(t, level, args) ==
    FormatMessage(Global, THREAD_ID[t], TOTAL_THREADS,
                  ThreadScope(t, NAMED_SCOPE), Record(level, args))

\* LOG_BUFFER as a thread_local the spawning thread alone has installed.
LockedBufferOwned(t, log_buffer) == IF t = "main" THEN log_buffer ELSE None

\* LOG_BUFFER.lock(), line 463: LOG_BUFFER is one static behind a Mutex, so
\* every thread gets the same cell.
LockedBuffer(t, log_buffer) == log_buffer

\* What emit_message does with that text, in the current state.
Emitted(t, level, args) ==
    EmitMessage(level, Rendered(t, level, args), FORCE_PANIC[t],
                ThreadScope(t, NAMED_SCOPE), LockedBuffer(t, LOG_BUFFER),
                MIRROR_TO_STDERR, Global.prefix)

\* NAMED_SCOPE as one static shared by every thread.
SetScopeShared(scopes, t, named_scope) == [u \in DOMAIN scopes |-> named_scope]

\* NAMED_SCOPE is thread_local: emit_message writes the calling thread's cell.
SetScope(scopes, t, named_scope) == [scopes EXCEPT ![t] = named_scope]

\* A thread_local cell written on thread t: the other threads' cells stay.
SetLocal(cells, t, value) == [cells EXCEPT ![t] = value]

\* impl Log for Loggy: log, reached through the log!, error!, warn!, ...
\* macros (the panic! macro is ForcePanic followed by an Error record).
Log(t, level, args) ==
    /\ Running(t)
    /\ IsSome(loggy)
    /\ records < MaxRecords
    /\ records' = records + 1
    /\ TOTAL_ERRORS' = CountedTotal(level, TOTAL_ERRORS)
    /\ THREAD_ERRORS' = SetLocal(THREAD_ERRORS, t, CountedThread(level, THREAD_ERRORS[t]))
    /\ error_records' = IF level = "Error" THEN error_records + 1 ELSE error_records
    /\ IF Enabled(level, max_level)
       THEN LET out == Emitted(t, level, args)
            IN  /\ FORCE_PANIC' = SetLocal(FORCE_PANIC, t, out.force_panic)
                /\ NAMED_SCOPE' = SetScope(NAMED_SCOPE, t, out.named_scope)
                /\ LOG_BUFFER' = out.log_buffer
                /\ stderr' = stderr \o out.eprint
                /\ panicking' = SetLocal(panicking, t, out.panic)
                /\ stack' = SetLocal(stack, t,
                        IF level = "Error"
                        THEN ObserveError(stack[t], IsSome(out.panic))
                        ELSE stack[t])
                /\ IF Global.show_thread /\ ~IsSome(THREAD_ID[t])
                   THEN /\ THREAD_ID' = SetLocal(THREAD_ID, t, Some(TOTAL_THREADS))
                        /\ TOTAL_THREADS' = TOTAL_THREADS + 1
                   ELSE UNCHANGED <<THREAD_ID, TOTAL_THREADS>>
       ELSE UNCHANGED <<FORCE_PANIC, NAMED_SCOPE, LOG_BUFFER, stderr, panicking,
                        stack, THREAD_ID, TOTAL_THREADS>>
    /\ UNCHANGED <<SINGLE_TEST, status, IS_COUNTING, count_result>>
    /\ UNCHANGED configVars

\* emit_message holding the MutexGuard of LOG_BUFFER (lines 463-473): the
\* message it is appending.  before and pushed only observe it: the buffer
\* when the lock was taken and the lines push_str has copied so far.
SinkGuard(message, before) ==
    [kind |-> "sink", message |-> message, before |-> before, pushed |-> 0]

\* LOG_BUFFER without its Mutex: any thread gets at the cell at any time.
BufferLockableAlways(t, statuses) == TRUE

\* LOG_BUFFER.lock() (line 463, and lines 490, 501 and 623): it returns when
\* no thread is inside lines 463-473 of emit_message.
BufferLockable(t, statuses) == \A u \in Threads : statuses[u] # "emitting"

\* Loggy::log for a record that is neither Debug nor Error, up to line 469
\* of emit_message: the message is rendered, the lock of LOG_BUFFER taken
\* and the eprint! of lines 465 and 468 done.
EmitLock(t, level, args) ==
    /\ Running(t)
    /\ IsSome(loggy)
    /\ records < MaxRecords
    /\ level \notin {"Debug", "Error"}
    /\ Enabled(level, max_level)
    /\ BufferLockable(t, status)
    /\ records' = records + 1
    /\ status' = [status EXCEPT ![t] = "emitting"]
    /\ LET message == Rendered(t, level, args)
       IN  /\ stack' = [stack EXCEPT ![t] =
                Append(@, SinkGuard(message,
                    IF IsSome(LOG_BUFFER) THEN Unwrap(LOG_BUFFER) ELSE <<>>))]
           /\ stderr' = stderr \o SinkEprint(LOG_BUFFER, MIRROR_TO_STDERR, message)
    /\ IF Global.show_thread /\ ~IsSome(THREAD_ID[t])
       THEN /\ THREAD_ID' = SetLocal(THREAD_ID, t, Some(TOTAL_THREADS))
            /\ TOTAL_THREADS' = TOTAL_THREADS + 1
       ELSE UNCHANGED <<THREAD_ID, TOTAL_THREADS>>
    /\ UNCHANGED <<NAMED_SCOPE, FORCE_PANIC, LOG_BUFFER, SINGLE_TEST, panicking>>
    /\ UNCHANGED configVars
    /\ UNCHANGED countVars

\* buffer.push_str(message), line 470, copying the next line of the message.
PushStr(t) ==
    /\ status[t] = "emitting"
    /\ HasTop(t, "sink")
    /\ IsSome(LOG_BUFFER)
    /\ Top(stack[t]).pushed < Len(Top(stack[t]).message)
    /\ LET guard == Top(stack[t])
       IN  /\ LOG_BUFFER' = Some(Append(Unwrap(LOG_BUFFER),
                                        guard.message[guard.pushed + 1]))
           /\ stack' = [stack EXCEPT ![t] =
                Append(Pop(@), [guard EXCEPT !.pushed = @ + 1])]
    /\ UNCHANGED <<TOTAL_THREADS, SINGLE_TEST, stderr, panicking, status, records>>
    /\ UNCHANGED localVars
    /\ UNCHANGED configVars
    /\ UNCHANGED countVars

\* emit_message returns, line 473: the MutexGuard of LOG_BUFFER is dropped.
EmitUnlock(t) ==
    /\ status[t] = "emitting"
    /\ HasTop(t, "sink")
    /\ IsSome(LOG_BUFFER) => Top(stack[t]).pushed = Len(Top(stack[t]).message)
    /\ stack' = [stack EXCEPT ![t] = Pop(@)]
    /\ status' = [status EXCEPT ![t] = "running"]
    /\ UNCHANGED <<TOTAL_THREADS, LOG_BUFFER, SINGLE_TEST, stderr, panicking,
                   records>>
    /\ UNCHANGED localVars
    /\ UNCHANGED configVars
    /\ UNCHANGED countVars

\* --------------------------------------------------------------- threads
\* thread::spawn: the worker starts with fresh thread-locals.
Spawn(t) ==
    /\ Running("main")
    /\ t # "main"
    /\ status[t] = "unborn"
    /\ status' = [status EXCEPT ![t] = "running"]
    /\ UNCHANGED <<TOTAL_THREADS, LOG_BUFFER, SINGLE_TEST, stderr, stack,
                   panicking, records>>
    /\ UNCHANGED localVars
    /\ UNCHANGED configVars
    /\ UNCHANGED countVars

\* The thread's closure returns, or a panic reaches the top of the thread.
Finish(t) ==
    /\ status[t] = "running"
    /\ stack[t] = <<>>
    /\ t = "main" => panicking[t] # None
    /\ status' = [status EXCEPT ![t] = "finished"]
    /\ UNCHANGED <<TOTAL_THREADS, LOG_BUFFER, SINGLE_TEST, stderr, stack,
                   panicking, records>>
    /\ UNCHANGED localVars
    /\ UNCHANGED configVars
    /\ UNCHANGED countVars

\* JoinHandle::join
Join(t) ==
    /\ Running("main")
    /\ status[t] = "finished"
    /\ t # "main"
    /\ status' = [status EXCEPT ![t] = "joined"]
    /\ UNCHANGED <<TOTAL_THREADS, LOG_BUFFER, SINGLE_TEST, stderr, stack,
                   panicking, records>>
    /\ UNCHANGED localVars
    /\ UNCHANGED configVars
    /\ UNCHANGED countVars

\* ------------------------------------------------------- counting regions
\* count(code), entered (spec.md 4.4).
CountBegin(t) ==
    /\ Running(t)
    /\ Len(stack[t]) < MaxDepth
    /\ stack' = [stack EXCEPT ![t] =
                    Append(@, CountRegion(IS_COUNTING[t], THREAD_ERRORS[t], TOTAL_ERRORS))]
    /\ IS_COUNTING' = [IS_COUNTING EXCEPT ![t] = TRUE]
    /\ UNCHANGED <<TOTAL_THREADS, LOG_BUFFER, SINGLE_TEST, stderr, panicking,
                   status, THREAD_ERRORS, TOTAL_ERRORS, count_result, records, error_records>>
    /\ UNCHANGED localVars
    /\ UNCHANGED configVars

\* The value count(code) returns: the tally after minus the baseline.
CountValue(tally, region) == tally - region.before

\* count(code), code having run to completion (spec.md 4.4).
CountEnd(t) ==
    /\ Running(t)
    /\ HasTop(t, "count")
    /\ LET value == CountValue(THREAD_ERRORS[t], Top(stack[t]))
       IN  /\ count_result' = [count_result EXCEPT ![t] = Some(value)]
           /\ stack' = [stack EXCEPT ![t] = ObserveReturn(Pop(@), value)]
    /\ IS_COUNTING' = [IS_COUNTING EXCEPT ![t] = Top(stack[t]).was_counting]
    /\ UNCHANGED <<TOTAL_THREADS, LOG_BUFFER, SINGLE_TEST, stderr, panicking,
                   status, THREAD_ERRORS, TOTAL_ERRORS, records, error_records>>
    /\ UNCHANGED localVars
    /\ UNCHANGED configVars

\* count(code), a panic of code propagating through it unchanged.
UnwindCount(t) ==
    /\ Unwinding(t)
    /\ HasTop(t, "count")
    /\ stack' = [stack EXCEPT ![t] = Pop(@)]
    /\ UNCHANGED <<TOTAL_THREADS, LOG_BUFFER, SINGLE_TEST, stderr, panicking,
                   status, records>>
    /\ UNCHANGED localVars
    /\ UNCHANGED configVars
    /\ UNCHANGED countVars

\* assert_no_errors(label, code), entered: a counting region (spec.md 4.6).
AssertNoErrorsBegin(t, label) ==
    /\ Running(t)
    /\ Len(stack[t]) < MaxDepth
    /\ stack' = [stack EXCEPT ![t] =
                    Append(@, NoErrorsRegion(label, IS_COUNTING[t], THREAD_ERRORS[t]))]
    /\ IS_COUNTING' = [IS_COUNTING EXCEPT ![t] = TRUE]
    /\ UNCHANGED <<TOTAL_THREADS, LOG_BUFFER, SINGLE_TEST, stderr, panicking,
                   status, THREAD_ERRORS, TOTAL_ERRORS, count_result, records, error_records>>
    /\ UNCHANGED localVars
    /\ UNCHANGED configVars

\* assert_no_errors: the panic it raises when the count is not zero.
NoErrorsPanic(prefix, value, label) ==
    IF value > 0 THEN Some(NoErrorsPayload(prefix, value, label)) ELSE None

\* assert_no_errors(label, code), code having run to completion.
AssertNoErrorsEnd(t) ==
    /\ Running(t)
    /\ HasTop(t, "no_errors")
    /\ LET region == Top(stack[t])
       IN  panicking' = [panicking EXCEPT ![t] =
                NoErrorsPanic(Global.prefix, CountValue(THREAD_ERRORS[t], region),
                              region.label)]
    /\ stack' = [stack EXCEPT ![t] = Pop(@)]
    /\ IS_COUNTING' = [IS_COUNTING EXCEPT ![t] = Top(stack[t]).was_counting]
    /\ UNCHANGED <<TOTAL_THREADS, LOG_BUFFER, SINGLE_TEST, stderr, status,
                   THREAD_ERRORS, TOTAL_ERRORS, count_result, records, error_records>>
    /\ UNCHANGED localVars
    /\ UNCHANGED configVars

\* assert_no_errors, a panic of code propagating through it unchanged.
AssertNoErrorsUnwind(t) ==
    /\ Unwinding(t)
    /\ HasTop(t, "no_errors")
    /\ stack' = [stack EXCEPT ![t] = Pop(@)]
    /\ UNCHANGED <<TOTAL_THREADS, LOG_BUFFER, SINGLE_TEST, stderr, panicking,
                   status, records>>
    /\ UNCHANGED localVars
    /\ UNCHANGED configVars
    /\ UNCHANGED countVars

\* ------------------------------------------------------------ the harness
\* The Loggy that Capture::new registers.
HarnessLoggy == [prefix |-> "test", show_time |-> FALSE, show_thread |-> FALSE]

\* Capture::new, lines 480-488: the logger and the threshold after it.
RegisteredLoggy(did_set_logger, current) ==
    IF did_set_logger THEN current ELSE Some(HarnessLoggy)
RegisteredLevel(did_set_logger, current) ==
    IF did_set_logger THEN current ELSE "Trace"

\* The expected texts a harness call is given.
ExpectedTexts == {<<>>}
ExpectedPayloads ==
    {TextPayload(FormatMessage(HarnessLoggy, None, 0, None,
                               Record("Error", <<"m">>)))}
\* assert_logs, assert_panics, assert_logs_panics: what each passes on.
HarnessArguments ==
    {<<Some(l), None>> : l \in ExpectedTexts}
    \cup {<<None, Some(p)>> : p \in ExpectedPayloads}
    \cup {<<Some(l), Some(p)>> : l \in ExpectedTexts, p \in ExpectedPayloads}

\* A reentrant mutex: the thread that holds the lock may take it again.
LockableReentrant(t, single_test) == single_test = None \/ single_test = Some(t)

\* The Mutex of SINGLE_TEST (lines 505-508) is not reentrant: lock() returns
\* only when no thread, the caller included, holds it.
Lockable(t, single_test) == single_test = None

\* The guard bound to _ : the lock is released in the same statement.
LockSingleTestUnbound(t) == None

\* let _single_test = SINGLE_TEST.lock(): the lock is held by the caller
\* until the harness function returns.
LockSingleTest(t) == Some(t)

\* Capture::new at the head of do_assert_logs_panics, the lock being taken.
Capture(t, expected_log, expected_panic) ==
    /\ Lockable(t, SINGLE_TEST)
    /\ SINGLE_TEST' = LockSingleTest(t)
    /\ status' = [status EXCEPT ![t] = "running"]
    /\ DID_SET_LOGGER' = TRUE
    /\ loggy' = RegisteredLoggy(DID_SET_LOGGER, loggy)
    /\ max_level' = RegisteredLevel(DID_SET_LOGGER, max_level)
    /\ LOG_BUFFER' = Some(<<>>)
    /\ TOTAL_THREADS' = 0
    /\ THREAD_ID' = [THREAD_ID EXCEPT ![t] = None]
    /\ stack' = [stack EXCEPT ![t] =
                    Append(@, HarnessCall(expected_log, expected_panic))]
    /\ UNCHANGED <<NAMED_SCOPE, FORCE_PANIC, MIRROR_TO_STDERR, stderr,
                   panicking, records>>
    /\ UNCHANGED countVars

\* assert_logs / assert_panics / assert_logs_panics called with the lock
\* free: SINGLE_TEST.lock() returns at once.
AssertCall(t, expected_log, expected_panic) ==
    /\ Running(t)
    /\ Len(stack[t]) < MaxDepth
    /\ Capture(t, expected_log, expected_panic)

\* The same call with the lock held: the thread waits in SINGLE_TEST.lock().
AssertWait(t) ==
    /\ Running(t)
    /\ Len(stack[t]) < MaxDepth
    /\ SINGLE_TEST # None
    /\ status' = [status EXCEPT ![t] = "locking"]
    /\ UNCHANGED <<TOTAL_THREADS, LOG_BUFFER, SINGLE_TEST, stderr, stack,
                   panicking, records>>
    /\ UNCHANGED localVars
    /\ UNCHANGED configVars
    /\ UNCHANGED countVars

\* The waiting thread gets the lock.
AssertAcquire(t, expected_log, expected_panic) ==
    /\ status[t] = "locking"
    /\ Capture(t, expected_log, expected_panic)

\* do_assert_logs: the panic it raises, if any.
DoAssertLogs(expected_log, log_buffer) ==
    IF ~IsSome(expected_log) THEN None
    ELSE IF ~IsSome(log_buffer) THEN Some(UnwrapNonePayload)
    ELSE IF Unwrap(log_buffer) # Unwrap(expected_log)
    THEN Some(AssertEqPayload("LOG"))
    ELSE None

\* do_assert_logs_panics, lines 581-618: the panic the call ends with, given
\* how the code ended (result: the payload it panicked with, if it did).
AssertOutcome(call, result, log_buffer) ==
    LET logs == DoAssertLogs(call.expected_log, log_buffer)
    IN  IF ~IsSome(call.expected_panic)
        THEN (IF IsSome(result) THEN result ELSE logs)
        ELSE IF IsSome(logs) THEN logs
        ELSE IF ~IsSome(result) THEN Some(DidNotPanicPayload)
        ELSE IF Unwrap(result) # Unwrap(call.expected_panic)
        THEN Some(AssertEqPayload("PANIC"))
        ELSE None

\* do_assert_logs, line 623: the buffer take() leaves.  do_assert_logs is
\* not reached when the code of assert_logs panicked.
TakenBuffer(call, result, log_buffer) ==
    IF IsSome(call.expected_log) /\ (IsSome(call.expected_panic) \/ ~IsSome(result))
    THEN None
    ELSE log_buffer

\* A Capture without a Drop: the buffer stays as the session left it.
CaptureDropForgotten(log_buffer) == log_buffer

\* impl Drop for Capture: the buffer after _capture went out of scope, on
\* return or while unwinding.
CaptureDrop(log_buffer) == None

\* The harness call ends: the code returned or panicked, the log and the
\* panic are compared, and _capture and _single_test are dropped.
AssertExit(t) ==
    /\ status[t] = "running"
    /\ HasTop(t, "assert")
    /\ panicking' = [panicking EXCEPT ![t] =
                        AssertOutcome(Top(stack[t]), @, LOG_BUFFER)]
    /\ LOG_BUFFER' = CaptureDrop(TakenBuffer(Top(stack[t]), panicking[t], LOG_BUFFER))
    /\ SINGLE_TEST' = None
    /\ stack' = [stack EXCEPT ![t] = Pop(@)]
    /\ UNCHANGED <<TOTAL_THREADS, stderr, status, records>>
    /\ UNCHANGED localVars
    /\ UNCHANGED configVars
    /\ UNCHANGED countVars

\* do_assert_logs reaches its take(): an expected log was given and, in
\* assert_logs, the code did not panic.
ReachesTake(call, result) ==
    IsSome(call.expected_log) /\ (IsSome(call.expected_panic) \/ ~IsSome(result))

\* The locals of a harness call that are dropped when it returns or unwinds:
\* _capture and _single_test.  took only observes whether do_assert_logs
\* has taken the buffer.
CaptureGuard(took) == [kind |-> "capture", took |-> took]

\* do_assert_logs_panics from the end of the code to its return or panic,
\* lines 581-618: the log is taken and compared, then the panic.  The
\* Capture is still alive.
AssertCompare(t) ==
    /\ status[t] = "running"
    /\ HasTop(t, "assert")
    /\ panicking' = [panicking EXCEPT ![t] =
                        AssertOutcome(Top(stack[t]), @, LOG_BUFFER)]
    /\ LOG_BUFFER' = TakenBuffer(Top(stack[t]), panicking[t], LOG_BUFFER)
    /\ stack' = [stack EXCEPT ![t] =
            Append(Pop(@), CaptureGuard(ReachesTake(Top(stack[t]), panicking[t])))]
    /\ status' = [status EXCEPT ![t] = "dropping"]
    /\ UNCHANGED <<TOTAL_THREADS, SINGLE_TEST, stderr, records>>
    /\ UNCHANGED localVars
    /\ UNCHANGED configVars
    /\ UNCHANGED countVars

\* The harness call returns or unwinds: _capture, then _single_test, are
\* dropped.
AssertDrop(t) ==
    /\ status[t] = "dropping"
    /\ HasTop(t, "capture")
    /\ LOG_BUFFER' = CaptureDrop(LOG_BUFFER)
    /\ SINGLE_TEST' = None
    /\ stack' = [stack EXCEPT ![t] = Pop(@)]
    /\ status' = [status EXCEPT ![t] = "running"]
    /\ UNCHANGED <<TOTAL_THREADS, stderr, panicking, records>>
    /\ UNCHANGED localVars
    /\ UNCHANGED configVars
    /\ UNCHANGED countVars

\* before_test, which #[loggy] puts before the test body (spec.md 4.6).
TestBegin(t) ==
    /\ t = "main"
    /\ Running(t)
    /\ stack[t] = <<>>
    /\ DID_SET_LOGGER' = TRUE
    /\ loggy' = RegisteredLoggy(DID_SET_LOGGER, loggy)
    /\ max_level' = RegisteredLevel(DID_SET_LOGGER, max_level)
    /\ TOTAL_ERRORS' = 0
    /\ error_records' = 0
    /\ THREAD_ERRORS' = [THREAD_ERRORS EXCEPT ![t] = 0]
    /\ IS_COUNTING' = [IS_COUNTING EXCEPT ![t] = TRUE]
    /\ LOG_BUFFER' = Some(<<>>)
    /\ stack' = [stack EXCEPT ![t] = <<TestBody>>]
    /\ UNCHANGED <<TOTAL_THREADS, SINGLE_TEST, MIRROR_TO_STDERR, stderr,
                   panicking, status, count_result, records>>
    /\ UNCHANGED localVars

\* A teardown that checks nothing.
AfterTestPanicNever(log_buffer) == None

\* after_test: the panic it raises when captured text is left (spec.md 4.6).
AfterTestPanic(log_buffer) ==
    IF IsSome(log_buffer) /\ Unwrap(log_buffer) # <<>>
    THEN Some(LeftoverPayload)
    ELSE None

\* after_test, which #[loggy] puts after the test body (spec.md 4.6).
TestEnd(t) ==
    /\ Running(t)
    /\ HasTop(t, "test")
    /\ stack' = [stack EXCEPT ![t] = Pop(@)]
    /\ LET panic == AfterTestPanic(LOG_BUFFER)
       IN  /\ panicking' = [panicking EXCEPT ![t] = panic]
           /\ IF IsSome(panic)
              THEN UNCHANGED <<LOG_BUFFER, IS_COUNTING>>
              ELSE /\ LOG_BUFFER' = None
                   /\ IS_COUNTING' = [IS_COUNTING EXCEPT ![t] = FALSE]
    /\ UNCHANGED <<TOTAL_THREADS, SINGLE_TEST, stderr, status, THREAD_ERRORS,
                   TOTAL_ERRORS, count_result, records, error_records>>
    /\ UNCHANGED localVars
    /\ UNCHANGED configVars

\* A panic leaves the test body: after_test is not reached.
UnwindTest(t) ==
    /\ Unwinding(t)
    /\ HasTop(t, "test")
    /\ stack' = [stack EXCEPT ![t] = Pop(@)]
    /\ UNCHANGED <<TOTAL_THREADS, LOG_BUFFER, SINGLE_TEST, stderr, panicking,
                   status, records>>
    /\ UNCHANGED localVars
    /\ UNCHANGED configVars
    /\ UNCHANGED countVars

\* ------------------------------------------------------- the specification
\* The statics and thread_locals as their initializers leave them, the main
\* thread running; the registered logger is set by Init or InitProgram.
InitProcess ==
    /\ NAMED_SCOPE = [t \in Threads |-> None]
    /\ FORCE_PANIC = [t \in Threads |-> FALSE]
    /\ THREAD_ID = [t \in Threads |-> None]
    /\ TOTAL_THREADS = 0
    /\ LOG_BUFFER = None
    /\ SINGLE_TEST = None
    /\ MIRROR_TO_STDERR \in BOOLEAN
    /\ stderr = <<>>
    /\ stack = [t \in Threads |-> <<>>]
    /\ panicking = [t \in Threads |-> None]
    /\ status = [t \in Threads |-> IF t = "main" THEN "running" ELSE "unborn"]
    /\ IS_COUNTING = [t \in Threads |-> FALSE]
    /\ THREAD_ERRORS = [t \in Threads |-> 0]
    /\ TOTAL_ERRORS = 0
    /\ count_result = [t \in Threads |-> None]
    /\ records = 0
    /\ error_records = 0

\* A test process in which Capture::new has registered the logger (lines
\* 480-488 run once per process) and no capture session is open; the main
\* thread is running.
Init ==
    /\ DID_SET_LOGGER = TRUE
    /\ loggy = RegisteredLoggy(FALSE, None)
    /\ max_level = RegisteredLevel(FALSE, "Off")
    /\ InitProcess

\* One thread using scopes, the force-panic flag, the capture sessions of the
\* harness, and a level for each way emit_message routes a record.
RoutedLevels == {"Error", "Info", "Debug"}

Next ==
    \/ \E name \in ScopeNames : EnterScope("main", name)
    \/ ExitScope("main")
    \/ UnwindScope("main")
    \/ ForcePanic("main")
    \/ \E level \in RoutedLevels, args \in Messages : Log("main", level, args)
    \/ \E a \in HarnessArguments : AssertCall("main", a[1], a[2])
    \/ AssertWait("main")
    \/ AssertExit("main")
    \/ Finish("main")

Spec == Init /\ [][Next]_vars

\* One thread using scopes and counting regions inside and outside a
\* #[loggy] test body.
CountedLevels == {"Error", "Info"}

NextCount ==
    \/ \E name \in ScopeNames : EnterScope("main", name)
    \/ ExitScope("main")
    \/ UnwindScope("main")
    \/ \E level \in CountedLevels, args \in Messages : Log("main", level, args)
    \/ CountBegin("main")
    \/ CountEnd("main")
    \/ UnwindCount("main")
    \/ TestBegin("main")
    \/ TestEnd("main")
    \/ UnwindTest("main")
    \/ Finish("main")

SpecCount == Init /\ [][NextCount]_vars

\* The main thread and a worker it spawns and joins, both using scopes and
\* logging, the main thread inside or outside a #[loggy] test body.
NextThreads ==
    \/ \E t \in Threads : EnterScope(t, "scope")
    \/ \E t \in Threads : ExitScope(t)
    \/ \E t \in Threads : UnwindScope(t)
    \/ \E t \in Threads, level \in CountedLevels, args \in Messages : Log(t, level, args)
    \/ \E t \in Threads : Spawn(t)
    \/ \E t \in Threads : Finish(t)
    \/ \E t \in Threads : Join(t)
    \/ TestBegin("main")
    \/ UnwindTest("main")

SpecThreads == Init /\ [][NextThreads]_vars

\* log::set_max_level, which Capture::new calls once (line 488) and the
\* program may call at any time.
SetMaxLevel(t, filter) ==
    /\ Running(t)
    /\ filter # max_level
    /\ max_level' = filter
    /\ UNCHANGED <<DID_SET_LOGGER, loggy, MIRROR_TO_STDERR, TOTAL_THREADS,
                   LOG_BUFFER, SINGLE_TEST, stderr, stack, panicking, status,
                   records>>
    /\ UNCHANGED localVars
    /\ UNCHANGED countVars

\* One thread logging records of every level, of one and of two lines,
\* inside and outside scopes of both names.
NextFormat ==
    \/ \E name \in ScopeNames : EnterScope("main", name)
    \/ ExitScope("main")
    \/ UnwindScope("main")
    \/ \E level \in Levels, args \in MultiLine : Log("main", level, args)
    \/ Finish("main")

SpecFormat == Init /\ [][NextFormat]_vars

\* One thread logging Info and Warn records, of one and of two lines, inside
\* and outside the capture sessions of the harness.
CapturedLevels == {"Info", "Warn"}

NextCapture ==
    \/ \E level \in CapturedLevels, args \in MultiLine : Log("main", level, args)
    \/ \E a \in HarnessArguments : AssertCall("main", a[1], a[2])
    \/ AssertExit("main")
    \/ Finish("main")

SpecCapture == Init /\ [][NextCapture]_vars

\* assert_logs: the arguments it passes on.
AssertLogsArguments == {<<Some(l), None>> : l \in ExpectedTexts}

\* One thread logging records of every level under every threshold, with
\* a scope, the force-panic flag and the capture sessions of assert_logs.
NextFilter ==
    \/ EnterScope("main", "scope")
    \/ ExitScope("main")
    \/ UnwindScope("main")
    \/ ForcePanic("main")
    \/ \E level \in Levels, args \in Messages : Log("main", level, args)
    \/ \E filter \in LevelFilters : SetMaxLevel("main", filter)
    \/ \E a \in AssertLogsArguments : AssertCall("main", a[1], a[2])
    \/ AssertExit("main")
    \/ Finish("main")

SpecFilter == Init /\ [][NextFilter]_vars

\* The main thread is not waiting in JoinHandle::join.
Attended == status["worker"] \in {"unborn", "joined"}

\* A main thread that spawns a worker and joins it before it goes on, inside
\* or outside a capture session (worker_threads_should_be_reported).
NextJoin ==
    \/ Attended /\ \E a \in HarnessArguments : AssertCall("main", a[1], a[2])
    \/ Attended /\ AssertExit("main")
    \/ Attended /\ \E args \in Messages : Log("main", "Info", args)
    \/ \E args \in ChildMessages : Log("worker", "Info", args)
    \/ Spawn("worker")
    \/ Finish("worker")
    \/ Join("worker")
    \/ Attended /\ Finish("main")

SpecJoin == Init /\ [][NextJoin]_vars

\* Two threads that both call the harness functions and log.
NextHarness ==
    \/ \E t \in Threads, a \in HarnessArguments : AssertCall(t, a[1], a[2])
    \/ \E t \in Threads : AssertWait(t)
    \/ \E t \in Threads, a \in HarnessArguments : AssertAcquire(t, a[1], a[2])
    \/ \E t \in Threads : AssertExit(t)
    \/ \E t \in Threads, args \in Messages : Log(t, "Info", args)
    \/ Spawn("worker")
    \/ \E t \in Threads : Finish(t)
    \/ Join("worker")

SpecHarness == Init /\ [][NextHarness]_vars

\* One thread calling assert_no_errors inside and outside a #[loggy] test
\* body, with and without a scope.
NextNoErrors ==
    \/ EnterScope("main", "scope")
    \/ ExitScope("main")
    \/ UnwindScope("main")
    \/ \E level \in CountedLevels, args \in Messages : Log("main", level, args)
    \/ \E label \in Labels : AssertNoErrorsBegin("main", label)
    \/ AssertNoErrorsEnd("main")
    \/ AssertNoErrorsUnwind("main")
    \/ TestBegin("main")
    \/ TestEnd("main")
    \/ UnwindTest("main")
    \/ Finish("main")

SpecNoErrors == Init /\ [][NextNoErrors]_vars

\* A logger the program registers itself, with the thread tag shown.
ProgramLoggy == [prefix |-> "test", show_time |-> FALSE, show_thread |-> TRUE]

\* A process whose main has registered ProgramLoggy with log::set_logger and
\* set the threshold to Trace; the harness is not used.
InitProgram ==
    /\ DID_SET_LOGGER = FALSE
    /\ loggy = Some(ProgramLoggy)
    /\ max_level = "Trace"
    /\ InitProcess

\* The main thread and a worker logging in any order, the thread tag shown.
NextOrdinal ==
    \/ \E t \in Threads, level \in CountedLevels, args \in MultiLine : Log(t, level, args)
    \/ \E t \in Threads : EnterScope(t, "scope")
    \/ \E t \in Threads : ExitScope(t)
    \/ \E t \in Threads : UnwindScope(t)
    \/ Spawn("worker")
    \/ \E t \in Threads : Finish(t)
    \/ Join("worker")

SpecOrdinal == InitProgram /\ [][NextOrdinal]_vars

\* A main thread that spawns a worker while one of its scopes is active and
\* keeps that scope until it has joined the worker, inside or outside a
\* capture session of assert_logs; both threads log and use scopes.
NextInherit ==
    \/ EnterScope("main", "scope")
    \/ Attended /\ ExitScope("main")
    \/ Attended /\ UnwindScope("main")
    \/ \E level \in CountedLevels, args \in Messages : Log("main", level, args)
    \/ \E a \in AssertLogsArguments : AssertCall("main", a[1], a[2])
    \/ Attended /\ AssertExit("main")
    \/ IsSome(NAMED_SCOPE["main"]) /\ Spawn("worker")
    \/ \E level \in CountedLevels, args \in ChildMessages : Log("worker", level, args)
    \/ EnterScope("worker", "scope")
    \/ ExitScope("worker")
    \/ UnwindScope("worker")
    \/ Finish("worker")
    \/ Join("worker")
    \/ Attended /\ Finish("main")

SpecInherit == Init /\ [][NextInherit]_vars

\* The args each thread logs in NextAppend.
AppendArgs(t) == IF t = "main" THEN MultiLine ELSE ChildLines

\* The main thread and a worker logging Info and Warn records at the same
\* time, inside and outside the capture sessions of assert_logs, with
\* emit_message taken one step at a time: the lock, each line push_str
\* copies, the unlock.  Capture::new, do_assert_logs and the drop of Capture
\* lock LOG_BUFFER as well.
NextAppend ==
    \/ \E t \in Threads, level \in CapturedLevels :
            \E args \in AppendArgs(t) : EmitLock(t, level, args)
    \/ \E t \in Threads : PushStr(t)
    \/ \E t \in Threads : EmitUnlock(t)
    \/ BufferLockable("main", status)
            /\ \E a \in AssertLogsArguments : AssertCall("main", a[1], a[2])
    \/ BufferLockable("main", status) /\ AssertExit("main")
    \/ Spawn("worker")
    \/ \E t \in Threads : Finish(t)
    \/ Join("worker")

SpecAppend == Init /\ [][NextAppend]_vars

\* A main thread calling the harness functions while a worker it spawned
\* logs, the end of a harness call taken in two steps: the comparison, then
\* the drop of the Capture.
NextTake ==
    \/ \E a \in HarnessArguments : AssertCall("main", a[1], a[2])
    \/ AssertCompare("main")
    \/ AssertDrop("main")
    \/ \E args \in Messages : Log("main", "Info", args)
    \/ \E args \in ChildMessages : Log("worker", "Info", args)
    \/ Spawn("worker")
    \/ \E t \in Threads : Finish(t)
    \/ Join("worker")

SpecTake == Init /\ [][NextTake]_vars

\* ------------------------------------------------------------ the claims
\* The text a harness-registered logger renders for an Error record logged
\* under a scope (None: under no scope).
ErrorText(named_scope) ==
    FormatMessage(HarnessLoggy, None, 0, named_scope, Record("Error", <<"m">>))

C4_ForcedErrorPanics ==
    [][\A t \in Threads :
        /\ ForcePanic(t) => FORCE_PANIC'[t]
        /\ (FORCE_PANIC[t] /\ ~FORCE_PANIC'[t])
            => \E args \in Messages : Log(t, "Error", args)
        /\ (~FORCE_PANIC[t] /\ FORCE_PANIC'[t]) => ForcePanic(t)
        /\ \A args \in Messages :
            Log(t, "Error", args) =>
                IF FORCE_PANIC[t]
                THEN /\ panicking'[t] = Some(TextPayload(Rendered(t, "Error", args)))
                     /\ NAMED_SCOPE' = NAMED_SCOPE
                     /\ LOG_BUFFER' = LOG_BUFFER
                     /\ stderr' = stderr
                     /\ ~FORCE_PANIC'[t]
                ELSE /\ panicking'[t] # Some(TextPayload(Rendered(t, "Error", args)))
                     /\ ~FORCE_PANIC'[t]]_vars

\* A forced Error record panicked with its text inside a scope whose tally
\* is still zero, nothing was captured, and the flag is clear again.
C4_Witness ==
    \E t \in Threads :
        /\ panicking[t] = Some(TextPayload(ErrorText(Some(NewScope("scope")))))
        /\ NAMED_SCOPE[t] = Some(NewScope("scope"))
        /\ LOG_BUFFER = Some(<<>>)
        /\ ~FORCE_PANIC[t]

\* C8: an Error record logged on one thread changes the scope of no other
\* thread, at any point of any interleaving.
C8_ScopesAreIsolated ==
    [][\A t \in Threads, u \in Threads, args \in Messages :
        (u # t /\ Log(t, "Error", args)) => NAMED_SCOPE'[u] = NAMED_SCOPE[u]]_vars

\* The worker has logged an Error record in its own scope while the main
\* thread's scope is active, and the main thread's tally is still zero.
C8_Witness ==
    /\ NAMED_SCOPE["main"] = Some(NewScope("scope"))
    /\ IsSome(NAMED_SCOPE["worker"])
    /\ Unwrap(NAMED_SCOPE["worker"]).errors = 1
    /\ status["worker"] = "running"

\* No line of a Debug record is in the captured buffer.
NoDebugCaptured ==
    IsSome(LOG_BUFFER) =>
        \A i \in 1..Len(Unwrap(LOG_BUFFER)) :
            Unwrap(LOG_BUFFER)[i].head.level \notin {"DEBUG", "debug"}

\* C10: no step puts a Debug record in the captured buffer; logging one writes
\* its text to the real stream and leaves the buffer, every scope and the
\* force-panic flags as they were, and raises nothing.
C10_DebugBypassesCapture ==
    [][/\ NoDebugCaptured'
       /\ \A t \in Threads, args \in Messages :
            Log(t, "Debug", args) =>
                /\ LOG_BUFFER' = LOG_BUFFER
                /\ stderr' = stderr \o Rendered(t, "Debug", args)
                /\ NAMED_SCOPE' = NAMED_SCOPE
                /\ FORCE_PANIC' = FORCE_PANIC
                /\ panicking' = panicking]_vars

\* A Debug record was written to the real stream during a capture session,
\* in a scope and with the force-panic flag set, and nothing was captured.
C10_Witness ==
    \E t \in Threads :
        /\ LOG_BUFFER = Some(<<>>)
        /\ ~MIRROR_TO_STDERR
        /\ Len(stderr) = 1
        /\ stderr[1].head.level = "DEBUG"
        /\ FORCE_PANIC[t]
        /\ NAMED_SCOPE[t] = Some(NewScope("scope"))

\* C5 as stated: in a test body that #[loggy] wraps, with no scope active,
\* an Error record raises nothing: its rendered text, which names the module
\* path, is appended to the captured buffer and the thread goes on.
C5_TestBodyErrorIsCaptured ==
    [][\A t \in Threads, args \in Messages :
        (Log(t, "Error", args) /\ InFrame(t, "test") /\ ~IsSome(NAMED_SCOPE[t])
                /\ ~FORCE_PANIC[t])
            => LET text == Rendered(t, "Error", args)
               IN  /\ panicking'[t] = None
                   /\ status'[t] = "running"
                   /\ \A i \in 1..Len(text) : text[i].head.scope = Some(ModulePath)
                   /\ IsSome(LOG_BUFFER)
                   /\ LOG_BUFFER' = Some(Unwrap(LOG_BUFFER) \o text)]_vars

\* C6 as stated: count(code), code logging N Error records on the calling
\* thread, returns N; none of the N records raises a panic; and errors()
\* after the call is N more than before it.
C6_CountReturnsErrorsLogged ==
    [][\A t \in Threads :
        /\ \A args \in Messages :
            (Log(t, "Error", args) /\ InFrame(t, "count") /\ ~FORCE_PANIC[t])
                => panicking'[t] = None
        /\ CountEnd(t) =>
            LET region == Top(stack[t])
            IN  /\ count_result'[t] = Some(region.logged)
                /\ TOTAL_ERRORS' = region.total + region.logged]_vars

\* C7 as stated: a region in which another region has returned, returns the
\* inner region's value plus the number of Error records logged directly in
\* it; once the inner region has returned the outer one is still counting,
\* and an Error record logged in it then raises no panic.
C7_NestedCountsAdd ==
    [][\A t \in Threads :
        /\ (CountEnd(t) /\ Top(stack[t]).nested)
            => count_result'[t] = Some(Top(stack[t]).inner + Top(stack[t]).direct)
        /\ (CountEnd(t) /\ InFrame(t, "count")')
            => IS_COUNTING'[t]
        /\ \A args \in Messages :
            (Log(t, "Error", args) /\ HasTop(t, "count") /\ Top(stack[t]).nested
                    /\ ~FORCE_PANIC[t])
                => panicking'[t] = None]_vars

\* Every worker thread is yet to be spawned or has been joined.
AllJoined == \A t \in Threads \ {"main"} : status[t] \in {"unborn", "joined"}

C11_CaptureKeepsCallOrder ==
    [][/\ \A t \in Threads, level \in CapturedLevels, args \in MultiLine :
            (Log(t, level, args) /\ IsSome(LOG_BUFFER) /\ Enabled(level, max_level))
                => LOG_BUFFER' = Some(Unwrap(LOG_BUFFER) \o Rendered(t, level, args))
       /\ (LOG_BUFFER' # LOG_BUFFER /\ IsSome(LOG_BUFFER) /\ IsSome(LOG_BUFFER'))
            => \E t \in Threads, level \in Levels, args \in MultiLine :
                    Log(t, level, args)]_vars

\* An Info record and then a Warn record of two lines were captured, in
\* that order.
C11_Witness ==
    /\ IsSome(LOG_BUFFER)
    /\ Len(Unwrap(LOG_BUFFER)) = 3
    /\ Unwrap(LOG_BUFFER)[1].head.level = "INFO"
    /\ Unwrap(LOG_BUFFER)[2].head.level = "WARN"
    /\ Unwrap(LOG_BUFFER)[3].head.level = "warn"

\* C12: while a capture session is open, a record logged by the worker
\* thread is appended to the end of the one captured buffer, after all that
\* the spawning thread logged before the spawn, and a record the spawning
\* thread logs once the worker is joined is appended after the worker's;
\* spawning, finishing and joining change nothing in the buffer.
C12_WorkerRecordsAreCaptured ==
    [][/\ \A args \in ChildMessages :
            (Log("worker", "Info", args) /\ IsSome(LOG_BUFFER))
                => LOG_BUFFER' =
                    Some(Unwrap(LOG_BUFFER) \o Rendered("worker", "Info", args))
       /\ \A args \in Messages :
            (Log("main", "Info", args) /\ IsSome(LOG_BUFFER))
                => LOG_BUFFER' =
                    Some(Unwrap(LOG_BUFFER) \o Rendered("main", "Info", args))
       /\ (Spawn("worker") \/ Finish("worker") \/ Join("worker"))
            => LOG_BUFFER' = LOG_BUFFER]_vars

\* The session's buffer holds the record the main thread logged before the
\* spawn and then the record of the worker, which has been joined.
C12_Witness ==
    /\ status["worker"] = "joined"
    /\ InFrame("main", "assert")
    /\ IsSome(LOG_BUFFER)
    /\ Len(Unwrap(LOG_BUFFER)) = 2
    /\ Unwrap(LOG_BUFFER)[1].text = "m"
    /\ Unwrap(LOG_BUFFER)[2].text = "child"

\* The threads inside a capture session: between the installation of the
\* buffer by Capture::new and its removal.
InSession == {t \in Threads : InFrame(t, "assert")}

\* C13: at most one capture session is open at any time, and the thread
\* whose session it is holds the harness lock from before the buffer is
\* installed until after it is removed.
C13_OneSessionAtATime ==
    /\ Cardinality(InSession) <= 1
    /\ \A t \in InSession : SINGLE_TEST = Some(t)

\* One thread is inside its session while the other waits for the lock.
C13_Witness ==
    \E t \in Threads, u \in Threads :
        /\ InSession = {t}
        /\ IsSome(LOG_BUFFER)
        /\ status[u] = "locking"

\* C14: no thread gets the harness lock while its own session is open; a
\* thread that calls a harness function from inside the code of its own
\* harness call waits for the lock it holds itself, and stays so for ever: the inner call never gets the lock and the outer call, its session
\* still open, never completes.
C14_NestedHarnessCallDeadlocks ==
    [][\A t \in Threads :
        /\ (\E a \in HarnessArguments :
                AssertCall(t, a[1], a[2]) \/ AssertAcquire(t, a[1], a[2]))
            => ~InFrame(t, "assert")
        /\ (status[t] = "locking" /\ SINGLE_TEST = Some(t))
            => /\ status'[t] = "locking"
               /\ SINGLE_TEST' = Some(t)
               /\ stack'[t] = stack[t]
               /\ InFrame(t, "assert")']_vars

\* A thread waits for the harness lock that its own open session holds.
C14_Witness ==
    \E t \in Threads :
        /\ status[t] = "locking"
        /\ SINGLE_TEST = Some(t)
        /\ HasTop(t, "assert")

Admitted(filter) ==
    CASE filter = "Off"   -> {}
      [] filter = "Error" -> {"Error"}
      [] filter = "Warn"  -> {"Error", "Warn"}
      [] filter = "Info"  -> {"Error", "Warn", "Info"}
      [] filter = "Debug" -> {"Error", "Warn", "Info", "Debug"}
      [] filter = "Trace" -> {"Error", "Warn", "Info", "Debug", "Trace"}

\* C16: a record handed to the logger is handled (it is written to the real
\* stream, captured, or raises a panic) if and only if its level is Error or
\* Debug or one the threshold admits; any other record produces no output
\* and leaves the captured buffer, every scope, the error counters, the
\* force-panic flags and the thread as they were.
C16_ThresholdFiltersRecords ==
    [][\A t \in Threads, level \in Levels, args \in Messages :
        Log(t, level, args) =>
            IF level \in {"Error", "Debug"} \cup Admitted(max_level)
            THEN \/ stderr' = stderr \o Rendered(t, level, args)
                 \/ /\ IsSome(LOG_BUFFER)
                    /\ LOG_BUFFER' = Some(Unwrap(LOG_BUFFER) \o Rendered(t, level, args))
                 \/ IsSome(panicking'[t])
            ELSE /\ stderr' = stderr
                 /\ LOG_BUFFER' = LOG_BUFFER
                 /\ NAMED_SCOPE' = NAMED_SCOPE
                 /\ FORCE_PANIC' = FORCE_PANIC
                 /\ TOTAL_ERRORS' = TOTAL_ERRORS
                 /\ THREAD_ERRORS' = THREAD_ERRORS
                 /\ panicking' = panicking
                 /\ stack' = stack]_vars

\* Under the threshold Off, with a scope active, the force-panic flag set
\* and a capture session open, two records were handed to the logger: the
\* Debug one was written and the other left no trace.
C16_Witness ==
    /\ max_level = "Off"
    /\ records = 2
    /\ error_records = 0
    /\ LOG_BUFFER = Some(<<>>)
    /\ Len(stderr) = 1
    /\ stderr[1].head.level = "DEBUG"
    /\ FORCE_PANIC["main"]
    /\ NAMED_SCOPE["main"] = Some(NewScope("scope"))

\* C17 as stated: inside assert_no_errors(label, code) an Error record
\* raises no panic and its text is captured when a buffer is installed;
\* when code returns, assert_no_errors panics with "N <label> error(s)" if
\* code logged N > 0 Error records, and returns normally if it logged none.
C17_AssertNoErrorsCounts ==
    [][\A t \in Threads :
        /\ \A args \in Messages :
            (Log(t, "Error", args) /\ InFrame(t, "no_errors") /\ ~FORCE_PANIC[t])
                => /\ panicking'[t] = None
                   /\ IsSome(LOG_BUFFER) =>
                        LOG_BUFFER' =
                            Some(Unwrap(LOG_BUFFER) \o Rendered(t, "Error", args))
        /\ AssertNoErrorsEnd(t) =>
            LET region == Top(stack[t])
            IN  panicking'[t] =
                    IF region.logged > 0
                    THEN Some(NoErrorsPayload(Global.prefix, region.logged, region.label))
                    ELSE None]_vars

\* The identity segment C18 expects of a line a thread writes: the name the
\* innermost open Scope guard was created with, nothing when that name is
\* empty, and the module path when the thread has no Scope guard open.
ExpectedIdentity(t) ==
    LET i == Innermost(stack[t], "scope")
    IN  IF i = 0 THEN Some(ModulePath)
        ELSE IF stack[t][i].entered = "" THEN None
        ELSE Some(stack[t][i].entered)

\* C18: every line that a record which is not Debug and does not panic
\* writes, one for each of its logical lines, carries as identity segment
\* the name of the innermost scope open on the calling thread, no segment
\* at all when that name is empty, and the module path when no scope is
\* open.
C18_ScopeNameReplacesModule ==
    [][\A t \in Threads, level \in Levels \ {"Debug"}, args \in MultiLine :
        (Log(t, level, args) /\ panicking'[t] = None)
            => /\ Len(stderr') = Len(stderr) + Len(args)
               /\ \A i \in (Len(stderr) + 1)..Len(stderr') :
                    stderr'[i].head.scope = ExpectedIdentity(t)]_vars

\* Inside a scope of empty name opened inside the scope "scope", the thread
\* has written a line with no identity segment after one that carries
\* "scope".
C18_Witness ==
    \E t \in Threads :
        /\ Len(stack[t]) = 2
        /\ stack[t][1].kind = "scope" /\ stack[t][1].entered = "scope"
        /\ stack[t][2].kind = "scope" /\ stack[t][2].entered = ""
        /\ Len(stderr) = 2
        /\ stderr[1].head.scope = Some("scope")
        /\ stderr[2].head.scope = None
        /\ stderr[2].head.level = "WARN"

\* C19: a record of k logical lines that does not panic writes exactly k
\* physical lines, in the order of the logical lines and each with its
\* text; the first shows the level in upper case, every later one shows it
\* in lower case, and the k lines agree in every other segment of the
\* prefix.
C19_OneLinePerLogicalLine ==
    [][\A t \in Threads, level \in Levels, args \in MultiLine :
        (Log(t, level, args) /\ panicking'[t] = None)
            => LET n == Len(stderr)
                   upper == CASE level = "Error" -> "ERROR"
                              [] level = "Warn"  -> "WARN"
                              [] level = "Info"  -> "INFO"
                              [] level = "Debug" -> "DEBUG"
                              [] level = "Trace" -> "TRACE"
                   lower == CASE level = "Error" -> "error"
                              [] level = "Warn"  -> "warn"
                              [] level = "Info"  -> "info"
                              [] level = "Debug" -> "debug"
                              [] level = "Trace" -> "trace"
               IN  /\ Len(stderr') = n + Len(args)
                   /\ stderr'[n + 1].head.level = upper
                   /\ \A i \in 1..Len(args) :
                        /\ stderr'[n + i].text = args[i]
                        /\ i > 1 => stderr'[n + i].head.level = lower
                        /\ [stderr'[n + i].head EXCEPT !.level = upper]
                            = stderr'[n + 1].head]_vars

\* A record of two lines was written: "[WARN] ... m" and "[warn] ... n".
C19_Witness ==
    /\ Len(stderr) = 2
    /\ stderr[1].head.level = "WARN" /\ stderr[1].text = "m"
    /\ stderr[2].head.level = "warn" /\ stderr[2].text = "n"
    /\ stderr[1].head.scope = stderr[2].head.scope
    /\ records = 1

\* C20 as stated: with show_thread set, a thread gets its ordinal the first
\* time it logs, the ordinal being the number of threads that logged before
\* it, and keeps it; distinct threads have distinct ordinals; and the lines
\* of the thread of ordinal 0 carry no thread tag, while those of a thread
\* of ordinal n > 0 carry "[n]".
C20_ThreadTagOmittedForFirst ==
    [][/\ \A t \in Threads, level \in Levels, args \in MultiLine :
            (Log(t, level, args) /\ Global.show_thread)
                => /\ THREAD_ID'[t] =
                        (IF IsSome(THREAD_ID[t]) THEN THREAD_ID[t]
                         ELSE Some(TOTAL_THREADS))
                   /\ TOTAL_THREADS' =
                        (IF IsSome(THREAD_ID[t]) THEN TOTAL_THREADS
                         ELSE TOTAL_THREADS + 1)
                   /\ \A u \in Threads \ {t} : THREAD_ID'[u] = THREAD_ID[u]
                   /\ \A i \in (Len(stderr) + 1)..Len(stderr') :
                        stderr'[i].head.thread =
                            (IF Unwrap(THREAD_ID'[t]) = 0 THEN None
                             ELSE THREAD_ID'[t])
       /\ \A t \in Threads, u \in Threads :
            (t # u /\ IsSome(THREAD_ID'[t]) /\ IsSome(THREAD_ID'[u]))
                => THREAD_ID'[t] # THREAD_ID'[u]]_vars

\* The scope a guard frame stands for: the name it was entered with and the
\* Error records tallied while it was the innermost scope.
OwnScope(guard) == [name |-> guard.entered, errors |-> guard.seen]

\* C22: when a nested scope that tallied M errors is popped, normally or by
\* unwinding, the enclosing scope that becomes active again has its tally
\* increased by M.
C22_NestedTallyRollsUp ==
    [][\A t \in Threads :
        (ExitScope(t) \/ UnwindScope(t)) =>
            LET guard == Top(stack[t])
            IN  IsSome(guard.previous) =>
                    NAMED_SCOPE'[t] =
                        Some([Unwrap(guard.previous) EXCEPT
                                !.errors = @ + Unwrap(NAMED_SCOPE[t]).errors])]_vars

\* C23: when a panic unwinds through a scope guard, the guard pops its scope
\* (the scope that was active before it becomes active again) and raises no
\* second panic, whatever its tally: the payload being unwound stays the
\* original one.
C23_UnwindingGuardRaisesNothing ==
    [][\A t \in Threads :
        UnwindScope(t) =>
            LET i == Innermost(stack'[t], "scope")
            IN  /\ panicking'[t] = panicking[t]
                /\ stack'[t] = Pop(stack[t])
                /\ NAMED_SCOPE'[t] =
                        IF i > 0 THEN Some(OwnScope(stack'[t][i])) ELSE None]_vars

\* Two Error records were tallied outside any capture session, one in an
\* outer and one in an inner scope; the inner exit raised "failed with 1
\* error(s)" and the outer guard, its tally 1, was unwound without replacing
\* that payload.
C23_Witness ==
    \E t \in Threads, name \in ScopeNames :
        /\ ~MIRROR_TO_STDERR
        /\ Len(stderr) = 2
        /\ error_records = 2
        /\ stack[t] = <<>>
        /\ NAMED_SCOPE[t] = None
        /\ panicking[t] = Some(FailedPayload("test", name, 1))

\* The scope that guard j of frames replaced when it was created: the one of
\* the nearest guard below it, none for the outermost guard.
Enclosing(frames, j) ==
    LET i == Innermost(SubSeq(frames, 1, j - 1), "scope")
    IN  IF i > 0 THEN Some(OwnScope(frames[i])) ELSE None

\* C26: on every thread, through every properly nested sequence of scope
\* enters and exits, normal or by unwinding, the active scope is the one the
\* innermost live guard pushed, each live guard holds as previous the scope
\* (name and tally) that was active when it was created, so that releasing
\* it always finds an active scope and restores that one, and a thread with
\* no live guard has no active scope.
C26_GuardsPopWhatTheyPushed ==
    \A t \in Threads :
        /\ NAMED_SCOPE[t] = Enclosing(stack[t], Len(stack[t]) + 1)
        /\ \A j \in 1..Len(stack[t]) :
                stack[t][j].kind = "scope" =>
                    stack[t][j].previous = Enclosing(stack[t], j)
        /\ panicking[t] # Some(UnwrapNonePayload)

\* An Error record was tallied in the scope "scope" and a record was then
\* logged in a scope "" nested in it; the nested guard has been released and
\* "scope" is active again with its tally of 1.
C26_Witness ==
    \E t \in Threads :
        /\ ~MIRROR_TO_STDERR
        /\ Len(stderr) = 2
        /\ stderr[1].head.scope = Some("scope")
        /\ stderr[1].head.level = "ERROR"
        /\ stderr[2].head.scope = None
        /\ Len(stack[t]) = 1
        /\ NAMED_SCOPE[t] = Some([name |-> "scope", errors |-> 1])

\* The lines a step appends to the capture buffer when a session is open,
\* to the real error stream when none is.
Written ==
    IF IsSome(LOG_BUFFER)
    THEN SubSeq(Unwrap(LOG_BUFFER'), Len(Unwrap(LOG_BUFFER)) + 1,
                Len(Unwrap(LOG_BUFFER')))
    ELSE SubSeq(stderr', Len(stderr) + 1, Len(stderr'))

\* C27: a worker spawned while a scope of the spawner is active starts with
\* no active scope; as long as it has entered none of its own, the records
\* it logs carry the module path and not the spawner's scope name, and an
\* Error record it logs panics with "error! called outside a named scope",
\* is written nowhere and leaves the spawner's scope and tally as they were.
C27_ScopeIsNotInherited ==
    [][/\ Spawn("worker") => NAMED_SCOPE'["worker"] = None
       /\ \A level \in CountedLevels, args \in ChildMessages :
            (Log("worker", level, args) /\ Innermost(stack["worker"], "scope") = 0)
                => /\ NAMED_SCOPE'["main"] = NAMED_SCOPE["main"]
                   /\ NAMED_SCOPE'["worker"] = None
                   /\ IF level = "Error"
                      THEN /\ panicking'["worker"] = Some(OutsidePayload(Global.prefix))
                           /\ Written = <<>>
                      ELSE /\ panicking'["worker"] = None
                           /\ Len(Written) = Len(args)
                           /\ \A i \in 1..Len(Written) :
                                Written[i].head.scope = Some(ModulePath)]_vars

\* While the scope "scope" of the main thread is active with a tally of
\* zero, the worker it spawned has logged a record that was captured with
\* the module path and then an Error record that panicked as logged outside
\* any scope.
C27_Witness ==
    /\ NAMED_SCOPE["main"] = Some([name |-> "scope", errors |-> 0])
    /\ status["worker"] = "running"
    /\ panicking["worker"] = Some(OutsidePayload("test"))
    /\ IsSome(LOG_BUFFER)
    /\ Len(Unwrap(LOG_BUFFER)) = 1
    /\ Unwrap(LOG_BUFFER)[1].text = "child"
    /\ Unwrap(LOG_BUFFER)[1].head.scope = Some(ModulePath)

\* What the harness-registered logger renders for the records of NextAppend.
WholeRenderings ==
    {FormatMessage(HarnessLoggy, None, 0, None, Record(level, args)) :
        level \in CapturedLevels, args \in MultiLine \cup ChildLines}

\* text is a concatenation of whole renderings.
RECURSIVE IsWhole(_)
IsWhole(text) ==
    \/ text = <<>>
    \/ \E r \in WholeRenderings :
            /\ Len(r) <= Len(text)
            /\ SubSeq(text, 1, Len(r)) = r
            /\ IsWhole(SubSeq(text, Len(r) + 1, Len(text)))

\* C25: while threads log at the same time into the capture buffer, the
\* buffer is a concatenation of whole record renderings whenever no thread
\* is inside an append, and while a thread is inside one the buffer is the
\* whole renderings it held when the append began followed by the lines of
\* that one record copied so far: no line of another record comes between
\* the lines of a record and nothing appended is lost.
C25_AppendsAreWhole ==
    IsSome(LOG_BUFFER) =>
        /\ (\A t \in Threads : ~HasTop(t, "sink")) => IsWhole(Unwrap(LOG_BUFFER))
        /\ \A t \in Threads :
                HasTop(t, "sink") =>
                    LET guard == Top(stack[t])
                    IN  /\ IsWhole(guard.before)
                        /\ Unwrap(LOG_BUFFER) =
                                guard.before \o SubSeq(guard.message, 1, guard.pushed)

\* In a capture session the buffer holds a whole two-line record of the main
\* thread followed by the first of the two lines of the record the worker is
\* appending, the main thread being free to run.
C25_Witness ==
    /\ IsSome(LOG_BUFFER)
    /\ status["main"] = "running"
    /\ HasTop("main", "assert")
    /\ HasTop("worker", "sink")
    /\ Top(stack["worker"]).pushed = 1
    /\ Len(Unwrap(LOG_BUFFER)) = 3
    /\ Unwrap(LOG_BUFFER)[1].text = "m"
    /\ Unwrap(LOG_BUFFER)[2].text = "n"
    /\ Unwrap(LOG_BUFFER)[3].text = "child"

\* do_assert_logs has taken the buffer of the open session, whose Capture
\* is still alive.
Taken == \E t \in Threads : HasTop(t, "capture") /\ Top(stack[t]).took

\* C24: when the captured log is taken for comparison, a second take right
\* after it succeeds and yields the empty text, and the sink is still
\* capturing: a record logged after the take, while the session is open, is
\* appended to the emptied buffer.
C24_TakeIsIdempotent ==
    [][/\ \A t \in Threads :
            (AssertCompare(t) /\ ReachesTake(Top(stack[t]), panicking[t]))
                => /\ LOG_BUFFER' = Some(<<>>)
                   /\ DoAssertLogs(Some(<<>>), LOG_BUFFER') = None
       /\ \A u \in Threads, args \in Messages \cup ChildMessages :
            (Taken /\ Log(u, "Info", args))
                => /\ IsSome(LOG_BUFFER) /\ IsSome(LOG_BUFFER')
                   /\ Unwrap(LOG_BUFFER') =
                        Unwrap(LOG_BUFFER) \o Rendered(u, "Info", args)]_vars

====
